---- MODULE Spec2Model ----
(***************************************************************************)
(* Model of the fhir-gateway end-to-end test driver (e2e-test/e2e.py and   *)
(* e2e-test/clients.py): the post-and-count scenario, the post-and-verify- *)
(* audit scenario with its poll loop, the audit record comparator and the  *)
(* date normalizer.                                                        *)
(*                                                                         *)
(* Python values are tagged records [t |-> type name, v |-> payload].  A   *)
(* str is kept as the list of its "/"-separated segments, so that          *)
(* s.split("/")[0] and the substring test for "_history" are computed on   *)
(* the text and not assumed.                                               *)
(*                                                                         *)
(* e2e.py imports the name extract_date_only from clients; clients.py      *)
(* defines the date normalizer under the name parse_date.  The model binds *)
(* extract_date_only to parse_date, the only date normalizer of clients.py.*)
(***************************************************************************)
EXTENDS Integers, Sequences, FiniteSets, TLC

(***************************************************************************)
(* Python values                                                           *)
(***************************************************************************)
None == [t |-> "NoneType", v |-> <<>>]

Str(segments) == [t |-> "str", v |-> segments]

Text(s) == Str(<<s>>)

PyInt(s) == [t |-> "int", v |-> <<s>>]

Date(d) == [t |-> "date", v |-> <<d>>]

List(items) == [t |-> "list", v |-> items]

Dict(fn) == [t |-> "dict", v |-> fn]

EmptyDict == Dict(<<>>)

isinstance(x, type) == x.t = type

\* dict.get(key): the value, or None when the key is absent
Get(d, key) == IF key \in DOMAIN d.v THEN d.v[key] ELSE None

\* s.split("/")[0]
SplitFirst(s) == Text(s.v[1])

\* segments of the modelled texts that contain the substring "_history"
HistorySegments == {"_history", "x_history"}

\* "_history" in x, for x a str, list or dict
ContainsHistory(x) ==
  CASE x.t = "str" -> \E i \in 1..Len(x.v) : x.v[i] \in HistorySegments
    [] x.t = "list" -> \E i \in 1..Len(x.v) : x.v[i] = Text("_history")
    [] x.t = "dict" -> "_history" \in DOMAIN x.v
    [] OTHER -> FALSE

\* x supports the "in" operator
Iterable(x) == x.t \in {"str", "list", "dict"}

(***************************************************************************)
(* Date normalizer (clients.py, parse_date)                                *)
(***************************************************************************)
Dates == {"2024-01-05", "2024-01-06"}

DateMin == "0001-01-01"

\* time-of-day suffixes accepted after a date by datetime.fromisoformat
IsoSuffixes == {"", "T10:00:00", "T10:00:00.123456", "T10:00:00.123456-05:00"}

\* suffixes matched by the three strptime formats, in the order tried
StrptimeSuffixes == <<{"T10:00:00.123456", "T10:00:00.12"}, {"T10:00:00"}, {""}>>

\* the date of text s when s is a date followed by one of the suffixes
Matches(s, suffixes) == {d \in Dates : \E suf \in suffixes : s = d \o suf}

fromisoformat(s) == Matches(s, IsoSuffixes)

strptime(s, k) == Matches(s, StrptimeSuffixes[k])

\* a fallback that lets the ValueError of a failed strptime escape
TryFormatsUncaught(s, k) ==
  IF strptime(s, k) # {} THEN Date(CHOOSE d \in strptime(s, k) : TRUE)
  ELSE [t |-> "raise", v |-> <<"ValueError">>]

RECURSIVE TryFormats(_, _)
TryFormats(s, k) ==
  IF k > Len(StrptimeSuffixes) THEN Date(DateMin)
  ELSE IF strptime(s, k) # {} THEN Date(CHOOSE d \in strptime(s, k) : TRUE)
  ELSE TryFormats(s, k + 1)

parse_date(date_str) ==
  IF ~isinstance(date_str, "str") THEN Date(DateMin)
  ELSE IF Len(date_str.v) # 1 THEN Date(DateMin)
  ELSE LET s == date_str.v[1] IN
       IF fromisoformat(s) # {} THEN Date(CHOOSE d \in fromisoformat(s) : TRUE)
       ELSE TryFormats(s, 1)

extract_date_only(value) == parse_date(value)

\* date.today().strftime('%Y-%m-%d')
strftime(day) == Text(day)

(***************************************************************************)
(* Audit record comparator (e2e.py, _assert_audit_events)                  *)
(***************************************************************************)
verification_fields ==
  <<"action", "subtype", "outcome", "agent", "entity", "source", "recorded", "period">>

\* the outcome of one field check, or of one comparator call
NoRaise == [exc |-> "none", field |-> "", why |-> ""]

Raise(exc, field, why) == [exc |-> exc, field |-> field, why |-> why]

\* an exception raised while a value was being computed
Raised(exc) == [t |-> "raise", v |-> <<exc>>]

IsRaised(x) == x.t = "raise"

\* x.get(key) on a value that need not be a dict
Attr(x, key) == IF isinstance(x, "dict") THEN Get(x, key) ELSE Raised("AttributeError")

\* value[idx].get(key) if isinstance(value, list) and len(value) > idx else ""
ItemGet(value, idx, key) ==
  IF isinstance(value, "list") /\ Len(value.v) > idx
  THEN Attr(value.v[idx + 1], key)
  ELSE Text("")

\* what.get("reference") if isinstance(what, dict) else ""
Reference(what) == IF isinstance(what, "dict") THEN Get(what, "reference") ELSE Text("")

\* ref.split("/")[0] if isinstance(ref, str) else ""
ResourceType(ref) == IF isinstance(ref, "str") THEN SplitFirst(ref) ELSE Text("")

\* actual_value != expected_value  ->  raise AssertionError("Field ... mismatch")
Compare(field, expected_value, actual_value) ==
  IF actual_value # expected_value THEN Raise("AssertionError", field, "mismatch")
  ELSE NoRaise

\* an agent check that projects to the entry at index 1
CheckAgentSecondEntry(field, expected_value, actual_value) ==
  LET e == ItemGet(expected_value, 1, "who")
      a == ItemGet(actual_value, 1, "who")
  IN  IF IsRaised(e) THEN Raise(e.v[1], field, "error")
      ELSE IF IsRaised(a) THEN Raise(a.v[1], field, "error")
      ELSE Compare(field, e, a)

CheckAgent(field, expected_value, actual_value) ==
  LET e == ItemGet(expected_value, 2, "who")
      a == ItemGet(actual_value, 2, "who")
  IN  IF IsRaised(e) THEN Raise(e.v[1], field, "error")
      ELSE IF IsRaised(a) THEN Raise(a.v[1], field, "error")
      ELSE Compare(field, e, a)

\* the version check on the expected entity[2].what.reference
VersionCheck(field, expected_entity_resource_ref) ==
  IF expected_entity_resource_ref = None THEN NoRaise
  ELSE IF ~Iterable(expected_entity_resource_ref) THEN Raise("TypeError", field, "error")
  ELSE IF ~ContainsHistory(expected_entity_resource_ref)
       THEN Raise("AssertionError", field, "version")
  ELSE NoRaise

CheckEntity(field, expected_value, actual_value) ==
  LET expected_compartment_what == ItemGet(expected_value, 1, "what")
      actual_compartment_what == ItemGet(actual_value, 1, "what")
  IN
  IF IsRaised(expected_compartment_what)
  THEN Raise(expected_compartment_what.v[1], field, "error")
  ELSE IF IsRaised(actual_compartment_what)
  THEN Raise(actual_compartment_what.v[1], field, "error")
  ELSE
  LET expected_compartment_value == ResourceType(Reference(expected_compartment_what))
      actual_compartment_value == ResourceType(Reference(actual_compartment_what))
  IN
  IF expected_compartment_value # actual_compartment_value
  THEN Raise("AssertionError", field, "compartment")
  ELSE
  LET expected_entity_what == ItemGet(expected_value, 2, "what")
      actual_entity_what == ItemGet(actual_value, 2, "what")
  IN
  IF IsRaised(expected_entity_what) THEN Raise(expected_entity_what.v[1], field, "error")
  ELSE IF IsRaised(actual_entity_what) THEN Raise(actual_entity_what.v[1], field, "error")
  ELSE
  LET expected_entity_resource_ref == Reference(expected_entity_what)
      actual_entity_resource_ref == Reference(actual_entity_what)
      version == VersionCheck(field, expected_entity_resource_ref)
  IN
  IF version # NoRaise THEN version
  ELSE Compare(field, ResourceType(expected_entity_resource_ref),
                      ResourceType(actual_entity_resource_ref))

CheckRecorded(field, actual_value, today) ==
  Compare(field, strftime(today), extract_date_only(actual_value))

CheckPeriod(field, actual_value, today) ==
  LET actual_period_end ==
        IF isinstance(actual_value, "dict") THEN Get(actual_value, "end") ELSE None
  IN  Compare(field, strftime(today), extract_date_only(actual_period_end))

\* a loop body that checks a field whether or not the fixture has it
CheckFieldUnconditional(field, expected_audit_event, actual_audit_event, today) ==
  LET expected_value == Get(expected_audit_event, field)
      actual_value == Get(actual_audit_event, field)
  IN  CASE field = "agent" -> CheckAgent(field, expected_value, actual_value)
        [] field = "entity" -> CheckEntity(field, expected_value, actual_value)
        [] field = "recorded" -> CheckRecorded(field, actual_value, today)
        [] field = "period" -> CheckPeriod(field, actual_value, today)
        [] OTHER -> Compare(field, expected_value, actual_value)

\* the body of the loop over verification_fields for one field
CheckField(field, expected_audit_event, actual_audit_event, today) ==
  IF field \notin DOMAIN expected_audit_event.v THEN NoRaise
  ELSE
  LET expected_value == Get(expected_audit_event, field)
      actual_value == Get(actual_audit_event, field)
  IN  CASE field = "agent" -> CheckAgent(field, expected_value, actual_value)
        [] field = "entity" -> CheckEntity(field, expected_value, actual_value)
        [] field = "recorded" -> CheckRecorded(field, actual_value, today)
        [] field = "period" -> CheckPeriod(field, actual_value, today)
        [] OTHER -> Compare(field, expected_value, actual_value)

\* a scan that goes on after a mismatch and reports the last one
RECURSIVE ScanFieldsLast(_, _, _, _)
ScanFieldsLast(i, expected_audit_event, actual_audit_event, today) ==
  IF i > Len(verification_fields) THEN NoRaise
  ELSE LET r == CheckField(verification_fields[i], expected_audit_event,
                           actual_audit_event, today)
           rest == ScanFieldsLast(i + 1, expected_audit_event, actual_audit_event, today)
       IN  IF rest # NoRaise THEN rest ELSE r

RECURSIVE ScanFields(_, _, _, _)
ScanFields(i, expected_audit_event, actual_audit_event, today) ==
  IF i > Len(verification_fields) THEN NoRaise
  ELSE LET r == CheckField(verification_fields[i], expected_audit_event,
                           actual_audit_event, today)
       IN  IF r # NoRaise THEN r
           ELSE ScanFields(i + 1, expected_audit_event, actual_audit_event, today)

_assert_audit_events(expected_audit_event, actual_audit_event, today) ==
  ScanFields(1, expected_audit_event, actual_audit_event, today)

(***************************************************************************)
(* Bounds of the model                                                     *)
(***************************************************************************)
\* resource counts reported by the backend range over 0..MaxCount
MaxCount == 3

\* the backend holds at most MaxAudit audit events
MaxAudit == 3

\* the expected-audit fixture file holds a list of at most MaxFixture elements
MaxFixture == 2

\* the history counters stop counting at MaxTrack
MaxTrack == 61

(***************************************************************************)
(* State                                                                   *)
(***************************************************************************)
VARIABLES
  scenario,        \* the test function that runs: "parity", "count", "audit",
                   \* or "compare" for the comparator alone
  pc,              \* the position in that function
  frame,           \* its arguments and local variables
  outcome,         \* how it ended: NoRaise on return, else the exception raised
  today,           \* date.today() at verification time
  expected_audit_event, actual_audit_event, verdict,
                   \* the arguments and the outcome of the last comparator call
  server_count,    \* resource count reported by the HAPI server
  proxy_count,     \* resource count reported through the proxy
  audit_log,       \* AuditEvent entries stored by the backend, oldest first
  failed,          \* some backend call was answered with an error status
  hist             \* history: what the scenario has done so far

vars == <<scenario, pc, frame, outcome, today, expected_audit_event,
          actual_audit_event, verdict, server_count, proxy_count, audit_log,
          failed, hist>>

cmpVars == <<expected_audit_event, actual_audit_event, verdict>>

backend == <<server_count, proxy_count, audit_log>>

\* a local variable that has not been assigned yet
Unset == -1

InitFrame(increase) ==
  [expected_audit_event_increase |-> increase,
   token_age |-> Unset,
   value_from_server |-> Unset, value_from_proxy |-> Unset, current_value |-> Unset,
   initial_audit_event_count |-> Unset, current_audit_event_count |-> Unset,
   new_audit_events |-> <<>>, waited |-> Unset,
   expected_data |-> None, index |-> Unset,
   patient |-> Unset, pair |-> Unset]

InitHist ==
  [samples |-> 0, sleeps |-> 0, fetches |-> 0, posts |-> 0, compared |-> {},
   skipped |-> {}, satisfied |-> FALSE, overshoot |-> FALSE, queried |-> <<>>]

Bump(n) == IF n < MaxTrack THEN n + 1 ELSE n

\* AuditEvent entries the backend may store: a created resource, a read
\* resource, and an entry whose resource is not an object
AuditEntries ==
  {Dict([resource |-> Dict([action |-> Text("C")])]),
   Dict([resource |-> Dict([action |-> Text("R")])]),
   Dict([resource |-> Text("OperationOutcome")])}

\* elements of the expected-audit fixture file
FixtureElements == {Dict([action |-> Text("C")]), EmptyDict, PyInt("5")}

\* contents of the expected-audit fixture file: lists, and a document that
\* is an object instead of a list
Fixtures ==
  {EmptyDict} \cup
  {List(items) : items \in UNION {[1..n -> FixtureElements] : n \in 0..MaxFixture}}

Init ==
  /\ scenario \in {"parity", "count", "audit"}
  /\ pc = "get_auth_token"
  /\ frame \in IF scenario = "audit" THEN {InitFrame(1), InitFrame(2)} ELSE {InitFrame(0)}
  /\ outcome = NoRaise
  /\ today = "2024-01-05"
  /\ expected_audit_event = None /\ actual_audit_event = None /\ verdict = NoRaise
  /\ server_count \in IF scenario = "count" THEN 0..1 ELSE {0}
  /\ proxy_count \in IF scenario = "count" THEN 0..1 ELSE {0}
  /\ audit_log \in IF scenario = "audit"
                   THEN {<<>>} \cup {<<e>> : e \in AuditEntries}
                   ELSE {<<>>}
  /\ failed = FALSE
  /\ hist = InitHist

(***************************************************************************)
(* Backend calls                                                           *)
(***************************************************************************)
\* a raise_for_status that lets an error response through
raise_for_status_ignored(ok) == "none"

\* response.raise_for_status(): the exception raised for a response
raise_for_status(ok) == IF ok THEN "none" ELSE "HTTPError"

\* an exception leaves the test function: nothing of it runs afterwards
Propagate(exception) ==
  /\ pc' = "raised"
  /\ outcome' = exception

\* the most recent AuditEvent entries, newest first
get_audit_events(log, limit) ==
  [i \in 1..(IF Len(log) < limit THEN Len(log) ELSE limit) |-> log[Len(log) + 1 - i]]

get_audit_event_count(log) == Len(log)

(***************************************************************************)
(* The backend, which stores resources and audit events on its own         *)
(***************************************************************************)
BackendStoresResource ==
  /\ scenario = "count"
  /\ \/ server_count < MaxCount /\ server_count' = server_count + 1
        /\ UNCHANGED proxy_count
     \/ proxy_count < MaxCount /\ proxy_count' = proxy_count + 1
        /\ UNCHANGED server_count
  /\ UNCHANGED <<scenario, pc, frame, outcome, today, cmpVars, audit_log, failed, hist>>

BackendStoresAuditEvent ==
  /\ scenario = "audit"
  /\ Len(audit_log) < MaxAudit
  /\ \E entry \in AuditEntries : audit_log' = Append(audit_log, entry)
  /\ UNCHANGED <<scenario, pc, frame, outcome, today, cmpVars, server_count,
                 proxy_count, failed, hist>>

(***************************************************************************)
(* test_proxy_and_server_equal_count                                       *)
(***************************************************************************)
\* the lists that __main__ passes
patient_list == <<"Patient/75270", "Patient/3810">>

resource_search_pairs == <<<<"Encounter", "patient">>, <<"Observation", "subject">>>>

\* a check that misses a proxy count above the server count
ParityMismatchAbove(value_from_server, value_from_proxy) ==
  value_from_server > value_from_proxy

\* value_from_server != value_from_proxy
ParityMismatch(value_from_server, value_from_proxy) ==
  value_from_server # value_from_proxy

Parity_get_auth_token ==
  /\ scenario = "parity" /\ pc = "get_auth_token"
  /\ \E ok \in BOOLEAN :
       /\ failed' = (failed \/ ~ok)
       /\ IF raise_for_status(ok) # "none"
          THEN /\ Propagate(Raise(raise_for_status(ok), "", "get_auth_token"))
               /\ UNCHANGED frame
          ELSE IF Len(patient_list) = 0 \/ Len(resource_search_pairs) = 0
          THEN /\ frame' = [frame EXCEPT !.token_age = 0]
               /\ pc' = "returned"
               /\ UNCHANGED outcome
          ELSE /\ frame' = [frame EXCEPT !.token_age = 0, !.patient = 1, !.pair = 1]
               /\ pc' = "get_server_count"
               /\ UNCHANGED outcome
  /\ UNCHANGED <<scenario, today, cmpVars, backend, hist>>

\* hapi.get_resource_count for the current patient and pair; the server
\* answers with any count
Parity_get_server_count ==
  /\ scenario = "parity" /\ pc = "get_server_count"
  /\ \E ok \in BOOLEAN, total \in 0..MaxCount :
       /\ failed' = (failed \/ ~ok)
       /\ IF raise_for_status(ok) # "none"
          THEN /\ Propagate(Raise(raise_for_status(ok), "", "get_resource_count"))
               /\ UNCHANGED frame
          ELSE /\ frame' = [frame EXCEPT !.value_from_server = total]
               /\ pc' = "get_proxy_count"
               /\ UNCHANGED outcome
  /\ UNCHANGED <<scenario, today, cmpVars, backend, hist>>

\* fhir_proxy.get_resource_count, the comparison, and the step of the two
\* for loops
Parity_get_proxy_count ==
  /\ scenario = "parity" /\ pc = "get_proxy_count"
  /\ \E ok \in BOOLEAN, total \in 0..MaxCount :
       /\ failed' = (failed \/ ~ok)
       /\ IF raise_for_status(ok) # "none"
          THEN /\ Propagate(Raise(raise_for_status(ok), "", "get_resource_count"))
               /\ UNCHANGED <<frame, hist>>
          ELSE /\ hist' = [hist EXCEPT !.queried =
                             Append(@, [patient |-> patient_list[frame.patient],
                                        resource |-> resource_search_pairs[frame.pair][1],
                                        server |-> frame.value_from_server,
                                        proxy |-> total])]
               /\ IF ParityMismatch(frame.value_from_server, total)
                  THEN /\ Propagate(Raise("ValueError", "", "count_mismatch"))
                       /\ frame' = [frame EXCEPT !.value_from_proxy = total,
                                                 !.token_age = @ + 1]
                  ELSE IF frame.pair < Len(resource_search_pairs)
                  THEN /\ frame' = [frame EXCEPT !.value_from_proxy = total,
                                                 !.token_age = @ + 1,
                                                 !.pair = @ + 1]
                       /\ pc' = "get_server_count"
                       /\ UNCHANGED outcome
                  ELSE IF frame.patient < Len(patient_list)
                  THEN /\ frame' = [frame EXCEPT !.value_from_proxy = total,
                                                 !.token_age = @ + 1,
                                                 !.patient = @ + 1, !.pair = 1]
                       /\ pc' = "get_server_count"
                       /\ UNCHANGED outcome
                  ELSE /\ frame' = [frame EXCEPT !.value_from_proxy = total,
                                                 !.token_age = @ + 1]
                       /\ pc' = "returned"
                       /\ UNCHANGED outcome
  /\ UNCHANGED <<scenario, today, cmpVars, backend>>

(***************************************************************************)
(* test_post_resource_increase_count                                       *)
(***************************************************************************)
\* the negation of the loop condition: value_from_proxy == current_value + 1
CountConverged(value_from_proxy, current_value) == value_from_proxy = current_value + 1

\* history of a poll observation of value against baseline + delta
Observe(h, value, target) ==
  [h EXCEPT !.samples = Bump(@),
            !.satisfied = @ \/ value = target,
            !.overshoot = @ \/ value > target]

\* line 69 reads the module-level auth_client, which __main__ binds to the
\* same AuthClient that it passes as auth
Count_get_auth_token ==
  /\ scenario = "count" /\ pc = "get_auth_token"
  /\ \E ok \in BOOLEAN :
       /\ failed' = (failed \/ ~ok)
       /\ IF raise_for_status(ok) # "none"
          THEN /\ Propagate(Raise(raise_for_status(ok), "", "get_auth_token"))
               /\ UNCHANGED frame
          ELSE /\ frame' = [frame EXCEPT !.token_age = 0]
               /\ pc' = "get_server_count"
               /\ UNCHANGED outcome
  /\ UNCHANGED <<scenario, today, cmpVars, backend, hist>>

Count_get_server_count ==
  /\ scenario = "count" /\ pc = "get_server_count"
  /\ \E ok \in BOOLEAN :
       /\ failed' = (failed \/ ~ok)
       /\ IF raise_for_status(ok) # "none"
          THEN /\ Propagate(Raise(raise_for_status(ok), "", "get_resource_count"))
               /\ UNCHANGED frame
          ELSE /\ frame' = [frame EXCEPT !.value_from_server = server_count]
               /\ pc' = "get_proxy_count"
               /\ UNCHANGED outcome
  /\ UNCHANGED <<scenario, today, cmpVars, backend, hist>>

\* a precondition that lets differing counts through
PreconditionMismatchNever(value_from_server, value_from_proxy) == FALSE

\* value_from_server != value_from_proxy, before the post
PreconditionMismatch(value_from_server, value_from_proxy) ==
  value_from_server # value_from_proxy

Count_get_proxy_count ==
  /\ scenario = "count" /\ pc = "get_proxy_count"
  /\ \E ok \in BOOLEAN :
       /\ failed' = (failed \/ ~ok)
       /\ IF raise_for_status(ok) # "none"
          THEN /\ Propagate(Raise(raise_for_status(ok), "", "get_resource_count"))
               /\ UNCHANGED frame
          ELSE IF PreconditionMismatch(frame.value_from_server, proxy_count)
          THEN /\ Propagate(Raise("ValueError", "", "count_mismatch"))
               /\ frame' = [frame EXCEPT !.value_from_proxy = proxy_count,
                                         !.token_age = @ + 1]
          ELSE /\ frame' = [frame EXCEPT !.value_from_proxy = proxy_count,
                                         !.current_value = proxy_count,
                                         !.token_age = @ + 1]
               /\ pc' = "post_resource"
               /\ UNCHANGED outcome
  /\ UNCHANGED <<scenario, today, cmpVars, backend, hist>>

Count_post_resource ==
  /\ scenario = "count" /\ pc = "post_resource"
  /\ hist' = [hist EXCEPT !.posts = Bump(@)]
  /\ \E ok \in BOOLEAN :
       /\ failed' = (failed \/ ~ok)
       /\ IF raise_for_status(ok) # "none"
          THEN /\ Propagate(Raise(raise_for_status(ok), "", "post_resource"))
               /\ UNCHANGED frame
          ELSE /\ frame' = [frame EXCEPT !.token_age = @ + 1]
               /\ IF CountConverged(frame.value_from_proxy, frame.current_value)
                  THEN pc' = "returned"
                  ELSE pc' = "loop_get_auth_token"
               /\ UNCHANGED outcome
  /\ UNCHANGED <<scenario, today, cmpVars, backend>>

\* a loop that goes on with the token it already holds
Count_loop_keep_token ==
  /\ scenario = "count" /\ pc = "loop_get_auth_token"
  /\ pc' = "loop_get_resource_count"
  /\ UNCHANGED <<scenario, frame, outcome, today, cmpVars, backend, failed, hist>>

Count_loop_get_auth_token ==
  /\ scenario = "count" /\ pc = "loop_get_auth_token"
  /\ \E ok \in BOOLEAN :
       /\ failed' = (failed \/ ~ok)
       /\ IF raise_for_status(ok) # "none"
          THEN /\ Propagate(Raise(raise_for_status(ok), "", "get_auth_token"))
               /\ UNCHANGED frame
          ELSE /\ frame' = [frame EXCEPT !.token_age = 0]
               /\ pc' = "loop_get_resource_count"
               /\ UNCHANGED outcome
  /\ UNCHANGED <<scenario, today, cmpVars, backend, hist>>

Count_loop_get_resource_count ==
  /\ scenario = "count" /\ pc = "loop_get_resource_count"
  /\ \E ok \in BOOLEAN :
       /\ failed' = (failed \/ ~ok)
       /\ IF raise_for_status(ok) # "none"
          THEN /\ Propagate(Raise(raise_for_status(ok), "", "get_resource_count"))
               /\ UNCHANGED <<frame, hist>>
          ELSE /\ frame' = [frame EXCEPT !.value_from_proxy = proxy_count,
                                         !.token_age = @ + 1]
               /\ hist' = Observe(hist, proxy_count, frame.current_value + 1)
               /\ pc' = "loop_sleep"
               /\ UNCHANGED outcome
  /\ UNCHANGED <<scenario, today, cmpVars, backend>>

\* time.sleep(10), then the loop condition
Count_loop_sleep ==
  /\ scenario = "count" /\ pc = "loop_sleep"
  /\ hist' = [hist EXCEPT !.sleeps = Bump(@)]
  /\ IF CountConverged(frame.value_from_proxy, frame.current_value)
     THEN pc' = "returned"
     ELSE pc' = "loop_get_auth_token"
  /\ UNCHANGED <<scenario, frame, outcome, today, cmpVars, backend, failed>>

(***************************************************************************)
(* _test_post_and_verify_audit_events                                      *)
(***************************************************************************)
max_wait_seconds == 300

poll_interval == 5

\* a loop condition that still samples at the deadline
LoopGuardInclusive(waited) == waited <= max_wait_seconds

\* the loop condition: waited < max_wait_seconds
LoopGuard(waited) == waited < max_wait_seconds

\* a condition that takes "at least" for convergence
AuditConvergedAtLeast(current_audit_event_count, initial_audit_event_count, increase) ==
  current_audit_event_count >= initial_audit_event_count + increase

\* current_audit_event_count == initial_audit_event_count + expected_audit_event_increase
AuditConverged(current_audit_event_count, initial_audit_event_count, increase) ==
  current_audit_event_count = initial_audit_event_count + increase

Timeout == Raise("AssertionError", "", "timeout")

Audit_get_auth_token ==
  /\ scenario = "audit" /\ pc = "get_auth_token"
  /\ \E ok \in BOOLEAN :
       /\ failed' = (failed \/ ~ok)
       /\ IF raise_for_status(ok) # "none"
          THEN /\ Propagate(Raise(raise_for_status(ok), "", "get_auth_token"))
               /\ UNCHANGED frame
          ELSE /\ frame' = [frame EXCEPT !.token_age = 0]
               /\ pc' = "get_initial_count"
               /\ UNCHANGED outcome
  /\ UNCHANGED <<scenario, today, cmpVars, backend, hist>>

Audit_get_initial_count ==
  /\ scenario = "audit" /\ pc = "get_initial_count"
  /\ \E ok \in BOOLEAN :
       /\ failed' = (failed \/ ~ok)
       /\ IF raise_for_status(ok) # "none"
          THEN /\ Propagate(Raise(raise_for_status(ok), "", "get_audit_event_count"))
               /\ UNCHANGED frame
          ELSE /\ frame' = [frame EXCEPT !.initial_audit_event_count =
                                            get_audit_event_count(audit_log)]
               /\ pc' = "post_resource"
               /\ UNCHANGED outcome
  /\ UNCHANGED <<scenario, today, cmpVars, backend, hist>>

Audit_post_resource ==
  /\ scenario = "audit" /\ pc = "post_resource"
  /\ hist' = [hist EXCEPT !.posts = Bump(@)]
  /\ \E ok \in BOOLEAN :
       /\ failed' = (failed \/ ~ok)
       /\ IF raise_for_status(ok) # "none"
          THEN /\ Propagate(Raise(raise_for_status(ok), "", "post_resource"))
               /\ UNCHANGED frame
          ELSE /\ frame' = [frame EXCEPT !.token_age = @ + 1, !.waited = 0]
               /\ IF LoopGuard(0)
                  THEN pc' = "get_audit_events" /\ UNCHANGED outcome
                  ELSE Propagate(Timeout)
  /\ UNCHANGED <<scenario, today, cmpVars, backend>>

Audit_get_audit_events ==
  /\ scenario = "audit" /\ pc = "get_audit_events"
  /\ hist' = [hist EXCEPT !.fetches = Bump(@)]
  /\ \E ok \in BOOLEAN :
       /\ failed' = (failed \/ ~ok)
       /\ IF raise_for_status(ok) # "none"
          THEN /\ Propagate(Raise(raise_for_status(ok), "", "get_audit_events"))
               /\ UNCHANGED frame
          ELSE /\ frame' = [frame EXCEPT !.new_audit_events =
                              get_audit_events(audit_log, frame.expected_audit_event_increase)]
               /\ pc' = "get_audit_event_count"
               /\ UNCHANGED outcome
  /\ UNCHANGED <<scenario, today, cmpVars, backend>>

Audit_get_audit_event_count ==
  /\ scenario = "audit" /\ pc = "get_audit_event_count"
  /\ \E ok \in BOOLEAN :
       /\ failed' = (failed \/ ~ok)
       /\ IF raise_for_status(ok) # "none"
          THEN /\ Propagate(Raise(raise_for_status(ok), "", "get_audit_event_count"))
               /\ UNCHANGED <<frame, hist>>
          ELSE LET count == get_audit_event_count(audit_log)
                   target == frame.initial_audit_event_count
                             + frame.expected_audit_event_increase
               IN  /\ frame' = [frame EXCEPT !.current_audit_event_count = count]
                   /\ hist' = Observe(hist, count, target)
                   /\ IF AuditConverged(count, frame.initial_audit_event_count,
                                        frame.expected_audit_event_increase)
                      THEN pc' = "read_file"
                      ELSE pc' = "sleep"
                   /\ UNCHANGED outcome
  /\ UNCHANGED <<scenario, today, cmpVars, backend>>

\* a poll that posts the resource again before it samples again
Audit_sleep_repost ==
  /\ scenario = "audit" /\ pc = "sleep"
  /\ hist' = [hist EXCEPT !.sleeps = Bump(@)]
  /\ frame' = [frame EXCEPT !.waited = @ + poll_interval]
  /\ IF LoopGuard(frame.waited + poll_interval)
     THEN pc' = "post_resource" /\ UNCHANGED outcome
     ELSE Propagate(Timeout)
  /\ UNCHANGED <<scenario, today, cmpVars, backend, failed>>

\* time.sleep(poll_interval); waited += poll_interval; then the loop
\* condition, and the AssertionError raised after the loop
Audit_sleep ==
  /\ scenario = "audit" /\ pc = "sleep"
  /\ hist' = [hist EXCEPT !.sleeps = Bump(@)]
  /\ frame' = [frame EXCEPT !.waited = @ + poll_interval]
  /\ IF LoopGuard(frame.waited + poll_interval)
     THEN pc' = "get_audit_events" /\ UNCHANGED outcome
     ELSE Propagate(Timeout)
  /\ UNCHANGED <<scenario, today, cmpVars, backend, failed>>

\* read_file of the expected-audit fixture, the isinstance and len checks
Audit_read_file ==
  /\ scenario = "audit" /\ pc = "read_file"
  /\ \E expected_data \in Fixtures :
       /\ IF ~isinstance(expected_data, "list")
          THEN /\ Propagate(Raise("AssertionError", "", "not_list"))
               /\ frame' = [frame EXCEPT !.expected_data = expected_data]
          ELSE IF Len(expected_data.v) # Len(frame.new_audit_events)
          THEN /\ Propagate(Raise("AssertionError", "", "length"))
               /\ frame' = [frame EXCEPT !.expected_data = expected_data]
          ELSE IF Len(expected_data.v) = 0
          THEN /\ pc' = "returned"
               /\ frame' = [frame EXCEPT !.expected_data = expected_data]
               /\ UNCHANGED outcome
          ELSE /\ pc' = "compare"
               /\ frame' = [frame EXCEPT !.expected_data = expected_data, !.index = 0]
               /\ UNCHANGED outcome
  /\ UNCHANGED <<scenario, today, cmpVars, backend, failed, hist>>

\* audit_event_entry.get("resource", {})
Resource(audit_event_entry) ==
  IF "resource" \in DOMAIN audit_event_entry.v THEN audit_event_entry.v["resource"]
  ELSE EmptyDict

\* one iteration of the loop over zip(expected_data, new_audit_events)
Audit_compare ==
  /\ scenario = "audit" /\ pc = "compare"
  /\ LET i == frame.index
         expected == frame.expected_data.v[i + 1]
         audit_event == Resource(frame.new_audit_events[i + 1])
         skip == ~isinstance(expected, "dict") \/ ~isinstance(audit_event, "dict")
         result == _assert_audit_events(expected, audit_event, today)
         last == i + 1 = Len(frame.expected_data.v)
     IN  IF skip
         THEN /\ hist' = [hist EXCEPT !.skipped = @ \cup {i}]
              /\ frame' = [frame EXCEPT !.index = i + 1]
              /\ pc' = IF last THEN "returned" ELSE "compare"
              /\ UNCHANGED <<outcome, cmpVars>>
         ELSE /\ expected_audit_event' = expected
              /\ actual_audit_event' = audit_event
              /\ verdict' = result
              /\ hist' = [hist EXCEPT !.compared = @ \cup {i}]
              /\ IF result # NoRaise
                 THEN Propagate(result) /\ UNCHANGED frame
                 ELSE /\ frame' = [frame EXCEPT !.index = i + 1]
                      /\ pc' = IF last THEN "returned" ELSE "compare"
                      /\ UNCHANGED outcome
  /\ UNCHANGED <<scenario, today, backend, failed>>

(***************************************************************************)
(* The scenarios                                                           *)
(***************************************************************************)
ParityStep ==
  \/ Parity_get_auth_token
  \/ Parity_get_server_count
  \/ Parity_get_proxy_count

CountStep ==
  \/ Count_get_auth_token
  \/ Count_get_server_count
  \/ Count_get_proxy_count
  \/ Count_post_resource
  \/ Count_loop_get_auth_token
  \/ Count_loop_get_resource_count
  \/ Count_loop_sleep

AuditStep ==
  \/ Audit_get_auth_token
  \/ Audit_get_initial_count
  \/ Audit_post_resource
  \/ Audit_get_audit_events
  \/ Audit_get_audit_event_count
  \/ Audit_sleep
  \/ Audit_read_file
  \/ Audit_compare

Next ==
  \/ ParityStep
  \/ CountStep
  \/ AuditStep
  \/ BackendStoresResource
  \/ BackendStoresAuditEvent

Spec == Init /\ [][Next]_vars

\* the test process keeps running while it has a step to take
FairSpec == Spec /\ WF_vars(ParityStep) /\ WF_vars(CountStep) /\ WF_vars(AuditStep)

Terminated == pc \in {"returned", "raised"}

(***************************************************************************)
(* The comparator on its own: _assert_audit_events applied to one expected *)
(* fixture element and one actual AuditEvent                               *)
(***************************************************************************)
\* agent and entity lists hold at most MaxListLen entries
MaxListLen == 3

\* a dict from a set of <<key, value>> pairs with distinct keys
DictOf(pairs) ==
  Dict([k \in {p[1] : p \in pairs} |-> (CHOOSE p \in pairs : p[1] = k)[2]])

\* the field is absent, or present with one of the values
Optional(key, values) == {{}} \cup {{<<key, value>>} : value \in values}

SimpleValues == {Text("C"), Text("R"), None}

\* a list of n entries whose entries at index 1 and 2 are given
ListOf(n, entry1, entry2) ==
  List([i \in 1..n |-> IF i = 2 THEN entry1 ELSE IF i = 3 THEN entry2 ELSE EmptyDict])

AgentEntries ==
  {Dict([who |-> Text("user-1")]), Dict([who |-> Text("user-2")]), EmptyDict, Text("user-1")}

AgentValues ==
  {ListOf(n, EmptyDict, entry) : n \in 0..MaxListLen, entry \in AgentEntries}
  \cup {None, Text("user-1")}

CompartmentReferences == {Str(<<"Patient", "75270">>), Str(<<"Encounter", "75270">>)}

TargetReferences ==
  {Str(<<"Observation", "55", "_history", "1">>), Str(<<"Observation", "55">>),
   Str(<<"Encounter", "9", "_history", "2">>), Str(<<"x_history">>), Text(""),
   PyInt("55")}

\* an entity entry with the given what.reference, one without a reference,
\* and one without what
EntityEntries(references) ==
  {Dict([what |-> Dict([reference |-> ref])]) : ref \in references}
  \cup {Dict([what |-> EmptyDict]), EmptyDict}

EntityValues ==
  {ListOf(n, entry1, entry2) :
     n \in 0..MaxListLen,
     entry1 \in EntityEntries(CompartmentReferences),
     entry2 \in EntityEntries(TargetReferences)}
  \cup {None, Text("Observation/55")}

TimeSuffixes == IsoSuffixes \cup {"T10:00:00.12"}

RecordedValues ==
  {Text(d \o suf) : d \in Dates, suf \in TimeSuffixes}
  \cup {Text("not-a-date"), Text(""), None, PyInt("20240105")}

PeriodValues ==
  {Dict([end |-> r]) : r \in RecordedValues} \cup {EmptyDict, None, Text("2024-01-05")}

FieldValues(field) ==
  CASE field = "agent" -> AgentValues
    [] field = "entity" -> EntityValues
    [] field = "recorded" -> RecordedValues
    [] field = "period" -> PeriodValues
    [] OTHER -> SimpleValues

Fields == {verification_fields[i] : i \in 1..Len(verification_fields)}

\* events with at most the field in focus and one more plain field
EventsOver(focus, other) ==
  {DictOf(a \cup b) : a \in Optional(focus, FieldValues(focus)),
                      b \in Optional(other, SimpleValues)}

CmpInit ==
  /\ scenario = "compare"
  /\ pc = "call"
  /\ frame = InitFrame(0)
  /\ outcome = NoRaise
  /\ today \in Dates
  /\ \E focus \in Fields : \E other \in {"action", "source"} \ {focus} :
       /\ expected_audit_event \in EventsOver(focus, other)
       /\ actual_audit_event \in EventsOver(focus, other)
  /\ verdict = NoRaise
  /\ server_count = 0 /\ proxy_count = 0 /\ audit_log = <<>>
  /\ failed = FALSE
  /\ hist = InitHist

Verify ==
  /\ scenario = "compare" /\ pc = "call"
  /\ verdict' = _assert_audit_events(expected_audit_event, actual_audit_event, today)
  /\ outcome' = verdict'
  /\ pc' = IF verdict' = NoRaise THEN "returned" ELSE "raised"
  /\ hist' = [hist EXCEPT !.compared = {0}]
  /\ UNCHANGED <<scenario, frame, today, expected_audit_event, actual_audit_event,
                 backend, failed>>

CmpNext == Verify

CmpSpec == CmpInit /\ [][CmpNext]_vars

(***************************************************************************)
(* Claims                                                                  *)
(***************************************************************************)
\* C1: every convergence poll terminates: the count poll and the audit
\* poll each end, by satisfaction or by a failure, whatever the backend
\* reports.
C1_EveryPollTerminates == <>Terminated

\* C2: in the audit poll with deadline D and interval I, a poll that is
\* never satisfied samples the backend exactly ceil(D/I) times, takes no
\* sample once waited >= D, and then fails with the timeout error.
CeilDiv(a, b) == (a + b - 1) \div b

C2_TimeoutBoundary ==
  scenario = "audit" =>
    /\ pc \in {"get_audit_events", "get_audit_event_count"}
         => frame.waited < max_wait_seconds
    /\ outcome = Timeout
         => /\ hist.samples = CeilDiv(max_wait_seconds, poll_interval)
            /\ hist.sleeps = hist.samples
    /\ (frame.waited # Unset /\ frame.waited >= max_wait_seconds)
         => (pc = "raised" /\ outcome = Timeout)

C2_Witness ==
  /\ scenario = "audit" /\ pc = "raised" /\ outcome = Timeout
  /\ ~hist.satisfied
  /\ hist.samples = 60

\* C3: in every poll loop, once an observation satisfies the condition the
\* poll ends with no further observe call and no further interval sleep: a
\* poll satisfied at its k-th sample has slept exactly k - 1 intervals.
C3_ReturnOnSatisfaction ==
  /\ [](hist.satisfied => hist.sleeps = hist.samples - 1)
  /\ [][hist.satisfied => (hist'.samples = hist.samples /\ hist'.sleeps = hist.sleeps)]_vars

\* C4: a post scenario proceeds past its poll only when the most recent
\* observed count equals baseline + delta exactly; an observed count above
\* baseline + delta is never taken for satisfaction, and the audit scenario
\* then ends in the timeout failure (or in the failure of a backend call).
PastAuditPoll ==
  \/ pc \in {"read_file", "compare", "returned"}
  \/ pc = "raised" /\ outcome # Timeout /\ outcome.exc # "HTTPError"

C4_ExactEqualityConvergence ==
  /\ (scenario = "count" /\ pc = "returned")
       => frame.value_from_proxy = frame.current_value + 1
  /\ (scenario = "audit" /\ PastAuditPoll)
       => frame.current_audit_event_count
            = frame.initial_audit_event_count + frame.expected_audit_event_increase
  /\ (scenario = "audit" /\ hist.overshoot)
       => /\ ~PastAuditPoll
          /\ Terminated => (outcome = Timeout \/ failed)

C4_Witness ==
  /\ scenario = "audit" /\ hist.overshoot
  /\ frame.expected_audit_event_increase = 2
  /\ pc = "raised" /\ outcome = Timeout

\* C5: in the audit scenario get_audit_events is called exactly once per
\* run, and only after a count observation has satisfied
\* count == baseline + delta.
C5_FetchOnceAfterSatisfaction ==
  scenario = "audit" =>
    /\ hist.fetches <= 1
    /\ hist.fetches > 0 => hist.satisfied

\* C6: a backend call that fails aborts the scenario at that call: the
\* failure propagates, and no later observation, sleep or comparison is
\* performed; it is never turned into a timeout or a success.
C6_FailFast ==
  /\ [](failed => (pc = "raised" /\ outcome.exc = "HTTPError"))
  /\ [][failed => (hist' = hist /\ frame' = frame /\ outcome' = outcome
                   /\ verdict' = verdict)]_vars

C6_Witness ==
  /\ failed /\ pc = "raised"
  /\ hist.samples >= 1
  /\ outcome.why \in {"get_audit_events", "get_audit_event_count",
                      "get_auth_token", "get_resource_count"}

\* C7: in the audit scenario a fixture that is not a list, or that has an
\* element that is not an object, makes the scenario fail before the
\* comparator is invoked on any pair; such a run never ends in success.
MalformedFixture(data) ==
  \/ ~isinstance(data, "list")
  \/ \E i \in 1..Len(data.v) : ~isinstance(data.v[i], "dict")

C7_MalformedFixtureAborts ==
  (scenario = "audit" /\ frame.expected_data # None
     /\ MalformedFixture(frame.expected_data))
    => (pc # "returned" /\ hist.compared = {})

\* C8: the audit scenario reports success only if the fixture and the
\* fetched entries have the same length and the comparator was run, and
\* passed, on every index; no index is skipped.
C8_PositionalCompleteComparison ==
  (scenario = "audit" /\ pc = "returned")
    => /\ Len(frame.expected_data.v) = Len(frame.new_audit_events)
       /\ hist.compared = 0..(Len(frame.expected_data.v) - 1)

\* C9: when the expected fixture has a recorded (resp. period) field, the
\* comparator accepts that field if and only if the normalized date of
\* actual.recorded (resp. actual.period.end) is today's date.
ActualTimestamp(field) ==
  IF field = "recorded" THEN Get(actual_audit_event, "recorded")
  ELSE LET period == Get(actual_audit_event, "period")
       IN  IF isinstance(period, "dict") THEN Get(period, "end") ELSE None

DatedToday(field) == parse_date(ActualTimestamp(field)) = Date(today)

C9_DateFieldsMatchToday ==
  (scenario = "compare" /\ Terminated) =>
    \A field \in {"recorded", "period"} :
      field \in DOMAIN expected_audit_event.v =>
        /\ DatedToday(field) => verdict.field # field
        /\ ~DatedToday(field) => verdict # NoRaise

\* C10: whenever the expected fixture has an entity field whose
\* entity[2].what.reference does not contain the history segment (a missing
\* reference and an entity list of fewer than 3 entries included), the
\* comparator fails, whatever the actual audit event is.
ExpectedVersioned ==
  LET entity == Get(expected_audit_event, "entity") IN
  /\ isinstance(entity, "list")
  /\ Len(entity.v) >= 3
  /\ isinstance(entity.v[3], "dict")
  /\ LET what == Get(entity.v[3], "what") IN
     /\ isinstance(what, "dict")
     /\ LET reference == Get(what, "reference") IN
        /\ isinstance(reference, "str")
        /\ \E i \in 1..Len(reference.v) : reference.v[i] \in HistorySegments

C10_VersionMarkerRequired ==
  (scenario = "compare" /\ Terminated
     /\ "entity" \in DOMAIN expected_audit_event.v /\ ~ExpectedVersioned)
    => verdict # NoRaise

\* C11: when the expected fixture has an entity field, the comparator
\* accepts it if and only if (1) the resource-type prefixes of
\* entity[1].what.reference are equal in expected and actual, (2) those of
\* entity[2].what.reference are equal, and (3) the expected entity[2]
\* reference is versioned.
ReferencePrefix(event, idx) ==
  LET entity == Get(event, "entity") IN
  IF isinstance(entity, "list") /\ Len(entity.v) > idx
     /\ isinstance(entity.v[idx + 1], "dict")
     /\ isinstance(Get(entity.v[idx + 1], "what"), "dict")
     /\ isinstance(Get(Get(entity.v[idx + 1], "what"), "reference"), "str")
  THEN Get(Get(entity.v[idx + 1], "what"), "reference").v[1]
  ELSE ""

EntityConditions ==
  /\ ReferencePrefix(expected_audit_event, 1) = ReferencePrefix(actual_audit_event, 1)
  /\ ReferencePrefix(expected_audit_event, 2) = ReferencePrefix(actual_audit_event, 2)
  /\ ExpectedVersioned

\* the scan went past the field without raising
Accepted(field) ==
  \/ verdict = NoRaise
  \/ \E i, j \in 1..Len(verification_fields) :
       /\ verification_fields[i] = field
       /\ verification_fields[j] = verdict.field
       /\ i < j

Rejected(field) == verdict # NoRaise /\ verdict.field = field

C11_EntityTwoPartCheck ==
  (scenario = "compare" /\ Terminated /\ "entity" \in DOMAIN expected_audit_event.v)
    => /\ Accepted("entity") => EntityConditions
       /\ Rejected("entity") => ~EntityConditions

\* C12: the comparator's verdict depends only on the fields present as keys
\* in the expected fixture: two actual events that agree on every field
\* present in expected get the same verdict, and a fixture with none of the
\* eight verification fields passes against every actual event.
WithField(event, field, value) ==
  Dict([k \in DOMAIN event.v \cup {field} |-> IF k = field THEN value ELSE event.v[k]])

WithoutField(event, field) == Dict([k \in DOMAIN event.v \ {field} |-> event.v[k]])

\* the actual events that differ from event in one field the fixture lacks
Variants(event, expected) ==
  UNION {{WithField(event, field, value) : value \in FieldValues(field)}
         \cup {WithoutField(event, field)} :
         field \in Fields \ DOMAIN expected.v}

C12_FieldSelection ==
  (scenario = "compare" /\ Terminated) =>
    /\ \A other \in Variants(actual_audit_event, expected_audit_event) :
         _assert_audit_events(expected_audit_event, other, today) = verdict
    /\ (DOMAIN expected_audit_event.v \cap Fields = {}) => verdict = NoRaise

C12_Witness ==
  /\ scenario = "compare" /\ Terminated
  /\ DOMAIN expected_audit_event.v = {"action"}
  /\ DOMAIN actual_audit_event.v = {"action", "entity"}
  /\ verdict = NoRaise

\* C13: the comparator scans the fields in the order action, subtype,
\* outcome, agent, entity, source, recorded, period; it fails on the
\* earliest present field that mismatches, whatever the later fields are,
\* and succeeds only when every present field matches.
Failing ==
  {i \in 1..Len(verification_fields) :
     CheckField(verification_fields[i], expected_audit_event, actual_audit_event, today)
       # NoRaise}

C13_FirstMismatchInOrder ==
  (scenario = "compare" /\ Terminated) =>
    /\ verdict = NoRaise <=> Failing = {}
    /\ Failing # {} =>
         /\ verdict.field \in DOMAIN expected_audit_event.v
         /\ \E i \in Failing :
              /\ verification_fields[i] = verdict.field
              /\ \A j \in Failing : i <= j
    /\ verification_fields =
         <<"action", "subtype", "outcome", "agent", "entity", "source", "recorded", "period">>

C13_Witness ==
  /\ scenario = "compare" /\ Terminated
  /\ Cardinality(Failing) = 2
  /\ verdict.field = "entity"

\* C14: when the expected fixture has an agent field, expected and actual
\* are each projected to the who attribute of the entry at index 2 of the
\* agent list, or to the empty string when the value is not a list or has
\* fewer than 3 entries, and the field is accepted if and only if the two
\* projections are equal; an entry at index 2 that is not an object has no
\* who attribute and is never accepted.
HasThirdEntry(agent) == isinstance(agent, "list") /\ Len(agent.v) >= 3

AgentProjectable(agent) == HasThirdEntry(agent) => isinstance(agent.v[3], "dict")

AgentProjection(agent) ==
  IF HasThirdEntry(agent) THEN Get(agent.v[3], "who") ELSE Text("")

AgentsMatch ==
  LET e == Get(expected_audit_event, "agent")
      a == Get(actual_audit_event, "agent")
  IN  /\ AgentProjectable(e) /\ AgentProjectable(a)
      /\ AgentProjection(e) = AgentProjection(a)

C14_AgentProjection ==
  (scenario = "compare" /\ Terminated /\ "agent" \in DOMAIN expected_audit_event.v)
    => /\ Accepted("agent") => AgentsMatch
       /\ Rejected("agent") => ~AgentsMatch
       /\ Accepted("agent") \/ Rejected("agent") \/ verdict.field = "action"

C14_Witness ==
  /\ scenario = "compare" /\ Terminated
  /\ "agent" \in DOMAIN expected_audit_event.v
  /\ "agent" \in DOMAIN actual_audit_event.v
  /\ isinstance(Get(expected_audit_event, "agent"), "list")
  /\ isinstance(Get(actual_audit_event, "agent"), "list")
  /\ Len(Get(expected_audit_event, "agent").v) = 2
  /\ Len(Get(actual_audit_event, "agent").v) = 0
  /\ verdict = NoRaise

\* C15: in the post-and-count poll every proxy count query issued inside
\* the loop is immediately preceded by a fresh get_auth_token call, so no
\* token is used for more than one in-loop proxy query.
C15_TokenRefreshPerRetry ==
  /\ [](scenario = "count" =>
          /\ pc = "loop_get_resource_count" => frame.token_age = 0
          /\ pc = "loop_sleep" => frame.token_age = 1)
  /\ [][(scenario = "count" /\ hist'.samples # hist.samples)
          => (frame.token_age = 0 /\ frame'.token_age = 1)]_vars

C15_Witness ==
  /\ scenario = "count" /\ pc = "loop_sleep"
  /\ hist.samples = 2
  /\ frame.token_age = 1

\* C16: test_proxy_and_server_equal_count succeeds if and only if the
\* origin count equals the proxy count for every (patient, pair); on the
\* first pair, in patient-major order, whose counts differ it fails with an
\* error carrying both values and queries no further pair.
Pairs == Len(patient_list) * Len(resource_search_pairs)

\* the k-th (patient, resource type) in patient-major order
KeyAt(k) ==
  [patient |-> patient_list[((k - 1) \div Len(resource_search_pairs)) + 1],
   resource |-> resource_search_pairs[((k - 1) % Len(resource_search_pairs)) + 1][1]]

CountsEqual(q) == q.server = q.proxy

CountMismatch == Raise("ValueError", "", "count_mismatch")

C16_CountParity ==
  scenario = "parity" =>
    LET q == hist.queried IN
    /\ Len(q) <= Pairs
    /\ \A k \in 1..Len(q) :
         /\ q[k].patient = KeyAt(k).patient /\ q[k].resource = KeyAt(k).resource
         /\ k < Len(q) => CountsEqual(q[k])
    /\ pc = "returned" <=> (Len(q) = Pairs /\ \A k \in 1..Pairs : CountsEqual(q[k]))
    /\ outcome = CountMismatch <=> (Len(q) > 0 /\ ~CountsEqual(q[Len(q)]))
    /\ outcome = CountMismatch =>
         /\ pc = "raised"
         /\ frame.value_from_server = q[Len(q)].server
         /\ frame.value_from_proxy = q[Len(q)].proxy

C16_Witness ==
  /\ scenario = "parity" /\ outcome = CountMismatch
  /\ Len(hist.queried) = 3
  /\ hist.queried[3].server < hist.queried[3].proxy

\* C17: for every input the date normalizer returns a calendar date and
\* never raises; for an input that is not text, and for a text on which all
\* four parse attempts fail, the result is the sentinel minimum date.
NormalizerInputs ==
  {Get(expected_audit_event, "recorded"), Get(actual_audit_event, "recorded"),
   ActualTimestamp("period")}

AllAttemptsFail(x) ==
  \/ Len(x.v) # 1
  \/ /\ fromisoformat(x.v[1]) = {}
     /\ \A k \in 1..Len(StrptimeSuffixes) : strptime(x.v[1], k) = {}

C17_NormalizerTotal ==
  scenario = "compare" =>
    \A x \in NormalizerInputs :
      /\ parse_date(x).t = "date"
      /\ ~isinstance(x, "str") => parse_date(x) = Date(DateMin)
      /\ (isinstance(x, "str") /\ AllAttemptsFail(x)) => parse_date(x) = Date(DateMin)
      /\ (isinstance(x, "str") /\ ~AllAttemptsFail(x)) => parse_date(x).v[1] \in Dates

C17_Witness ==
  /\ scenario = "compare" /\ Terminated
  /\ "recorded" \in DOMAIN expected_audit_event.v
  /\ Get(actual_audit_event, "recorded") = Text("not-a-date")
  /\ verdict = Raise("AssertionError", "recorded", "mismatch")

\* C18: with the backend free to append audit events between any two calls
\* of the audit poll, the records handed to the comparator on a successful
\* run are the newest N records of a backend state in which the audit count
\* equalled baseline + delta.
\* (audit events are only appended, so that backend state is the first
\* baseline + delta entries of the log)
LogAtTarget ==
  SubSeq(audit_log, 1,
         frame.initial_audit_event_count + frame.expected_audit_event_increase)

C18_FetchCountConsistency ==
  (scenario = "audit" /\ pc = "returned" /\ hist.compared # {})
    => frame.new_audit_events
         = get_audit_events(LogAtTarget, frame.expected_audit_event_increase)

(***************************************************************************)
(* C19  Baseline, post, poll: in the two post scenarios the baseline count *)
(* is read before the post, the post is issued once and never again while  *)
(* polling, and every poll observation comes after the post.  A run that   *)
(* ends before the post (a failed call, a failed precondition) issues none.*)
(***************************************************************************)
PostScenario == scenario \in {"count", "audit"}

Baseline ==
  IF scenario = "count" THEN frame.current_value
  ELSE frame.initial_audit_event_count

BeforePost ==
  pc \in {"get_auth_token", "get_server_count", "get_proxy_count",
          "get_initial_count", "post_resource"}

PollPositions ==
  {"loop_get_auth_token", "loop_get_resource_count", "loop_sleep",
   "get_audit_events", "get_audit_event_count", "sleep", "read_file", "compare"}

C19_BaselinePostPoll ==
  PostScenario =>
    /\ hist.posts <= 1
    /\ hist.posts = 1 => Baseline # Unset
    /\ BeforePost => hist.posts = 0 /\ hist.samples = 0 /\ hist.fetches = 0
    /\ pc = "post_resource" => Baseline # Unset
    /\ (pc \in PollPositions \/ pc = "returned") => hist.posts = 1
    /\ (hist.samples > 0 \/ hist.fetches > 0) => hist.posts = 1

C19_Witness ==
  /\ PostScenario /\ pc = "returned"
  /\ hist.posts = 1 /\ hist.samples >= 2 /\ hist.sleeps >= 1

(***************************************************************************)
(* C20  No mutation on a failed precondition: in                           *)
(* test_post_resource_increase_count, when the origin and proxy counts     *)
(* read before the post differ, the scenario fails with the count-mismatch *)
(* error, issues no post and never enters the poll.                        *)
(***************************************************************************)
PreconditionRead ==
  /\ scenario = "count"
  /\ frame.value_from_proxy # Unset
  /\ hist.samples = 0

C20_NoPostOnFailedPrecondition ==
  /\ (PreconditionRead /\ frame.value_from_server # frame.value_from_proxy)
       => /\ pc = "raised" /\ outcome = CountMismatch
          /\ hist.posts = 0 /\ frame.current_value = Unset
  /\ (scenario = "count" /\ outcome = CountMismatch)
       => /\ pc = "raised"
          /\ hist.posts = 0 /\ hist.samples = 0 /\ hist.sleeps = 0
          /\ frame.value_from_server # frame.value_from_proxy

C20_Witness ==
  /\ scenario = "count" /\ pc = "raised" /\ outcome = CountMismatch
  /\ frame.value_from_server # frame.value_from_proxy
  /\ hist.posts = 0

====
